---- MODULE Spec2Model ----
(***************************************************************************)
(* A model of weather.py: the OpenWeatherMap client (WeatherAPI), the two  *)
(* formatters (format_current_weather, format_forecast) and the command    *)
(* line entry point (main).                                                *)
(*                                                                         *)
(* Text that the code only passes through (city names, API keys, provider  *)
(* messages) is a TLA+ string.  Text that the code computes on character   *)
(* by character (condition descriptions, strftime results that are sorted  *)
(* or parsed back) is a sequence of ASCII codes.                           *)
(***************************************************************************)
EXTENDS Integers, Sequences, FiniteSets, TLC

VARIABLES
    args,             \* argparse namespace of main
    environ,          \* value of os.getenv("OPENWEATHER_API_KEY")
    utcoffset,        \* local time zone of the process, seconds east of UTC
    pc,               \* position in main, or in format_forecast
    weather_api,      \* the WeatherAPI object built by main
    requests,         \* every HTTP GET issued so far, in order
    stdout,           \* every print() so far, in order
    current_weather,  \* main: result of get_current_weather
    forecast,         \* main: result of get_forecast; format_forecast: forecast_data
    exc,              \* the exception in flight or caught, or NoValue
    exit_status,      \* process exit status once main has returned
    forecasts_by_day, \* format_forecast: day key -> list of items (as list positions)
    item_index,       \* format_forecast: position of the grouping loop
    sorted_days,      \* format_forecast: sorted(forecasts_by_day.keys())
    day_index,        \* format_forecast: position of the output loop
    output,           \* format_forecast: the text built so far, as lines
    returned,         \* format_forecast: the value returned, or NoValue
    response          \* the HTTP response received last, or NoValue

vars == <<args, environ, utcoffset, pc, weather_api, requests, stdout,
          current_weather, forecast, exc, exit_status, forecasts_by_day,
          item_index, sorted_days, day_index, output, returned, response>>

(***************************************************************************)
(* Bounds of the model.                                                    *)
(***************************************************************************)
MaxSamples == 3   \* longest forecast list given to format_forecast alone
MaxFetched == 2   \* longest forecast list a provider response carries in main
MaxDays == 6      \* largest --days value of the contiguous range

(***************************************************************************)
(* Python values.                                                          *)
(***************************************************************************)
PyNone == "None"              \* None where a string is expected
NoValue == [none |-> TRUE]    \* None where a dict is expected

Min(a, b) == IF a <= b THEN a ELSE b
Max(a, b) == IF a >= b THEN a ELSE b

(***************************************************************************)
(* str.capitalize(): first character upper-cased, the rest lower-cased.    *)
(***************************************************************************)
Upper(c) == IF c \in 97..122 THEN c - 32 ELSE c
Lower(c) == IF c \in 65..90 THEN c + 32 ELSE c

\* A mutant of Capitalize: the rest of the string is left as it is.
CapitalizeFirstOnly(s) ==
    IF s = <<>> THEN <<>>
    ELSE [i \in 1..Len(s) |-> IF i = 1 THEN Upper(s[i]) ELSE s[i]]

Capitalize(s) ==
    IF s = <<>> THEN <<>>
    ELSE [i \in 1..Len(s) |-> IF i = 1 THEN Upper(s[i]) ELSE Lower(s[i])]

(***************************************************************************)
(* datetime.fromtimestamp(ts): the local civil date and time of an epoch   *)
(* timestamp (proleptic Gregorian calendar).                               *)
(***************************************************************************)
CivilFromDays(z0) ==
    LET z == z0 + 719468
        era == z \div 146097
        doe == z - era * 146097
        yoe == (doe - doe \div 1460 + doe \div 36524 - doe \div 146096) \div 365
        doy == doe - (365 * yoe + yoe \div 4 - yoe \div 100)
        mp == (5 * doy + 2) \div 153
        d == doy - (153 * mp + 2) \div 5 + 1
        m == IF mp < 10 THEN mp + 3 ELSE mp - 9
        y == yoe + era * 400 + (IF m <= 2 THEN 1 ELSE 0)
    IN  [year |-> y, month |-> m, day |-> d]

DaysFromCivil(y0, m, d) ==
    LET y == IF m <= 2 THEN y0 - 1 ELSE y0
        era == y \div 400
        yoe == y - era * 400
        doy == (153 * (IF m > 2 THEN m - 3 ELSE m + 9) + 2) \div 5 + d - 1
        doe == yoe * 365 + yoe \div 4 - yoe \div 100 + doy
    IN  era * 146097 + doe - 719468

FromTimestamp(ts) ==
    LET local == ts + utcoffset
        date == CivilFromDays(local \div 86400)
        secs == local % 86400
    IN  [year |-> date.year, month |-> date.month, day |-> date.day,
         hour |-> secs \div 3600,
         minute |-> (secs % 3600) \div 60]

(***************************************************************************)
(* strftime / strptime.  Digits are ASCII 48..57, '-' is 45, ':' is 58.    *)
(***************************************************************************)
Pad2(n) == <<48 + ((n \div 10) % 10), 48 + (n % 10)>>
Pad4(n) == <<48 + ((n \div 1000) % 10), 48 + ((n \div 100) % 10)>> \o Pad2(n)

\* strftime("%Y-%m-%d")
StrftimeDate(dt) ==
    Pad4(dt.year) \o <<45>> \o Pad2(dt.month) \o <<45>> \o Pad2(dt.day)

\* strftime("%H:%M")
StrftimeTime(dt) == Pad2(dt.hour) \o <<58>> \o Pad2(dt.minute)

RECURSIVE ParseInt(_)
ParseInt(s) ==
    IF s = <<>> THEN 0
    ELSE 10 * ParseInt(SubSeq(s, 1, Len(s) - 1)) + (s[Len(s)] - 48)

\* datetime.strptime(day, "%Y-%m-%d")
StrptimeDate(s) ==
    [year |-> ParseInt(SubSeq(s, 1, 4)),
     month |-> ParseInt(SubSeq(s, 6, 7)),
     day |-> ParseInt(SubSeq(s, 9, 10))]

WeekdayNames ==
    <<"Monday", "Tuesday", "Wednesday", "Thursday", "Friday", "Saturday", "Sunday">>
MonthAbbrs ==
    <<"Jan", "Feb", "Mar", "Apr", "May", "Jun",
      "Jul", "Aug", "Sep", "Oct", "Nov", "Dec">>

\* date.weekday(): Monday is 0; 1970-01-01 was a Thursday.
Weekday(date) == (DaysFromCivil(date.year, date.month, date.day) + 3) % 7

\* strftime("%A, %b %d"), kept as its three fields
StrftimeDayStr(date) ==
    [A |-> WeekdayNames[Weekday(date) + 1], b |-> MonthAbbrs[date.month],
     d |-> Pad2(date.day)]

\* len(day_str) of "%A, %b %d"
LenDayStr(day_str) == Len(day_str.A) + 2 + Len(day_str.b) + 1 + Len(day_str.d)

(***************************************************************************)
(* sorted() on strings: lexicographic order of the character codes.        *)
(***************************************************************************)
RECURSIVE StrLess(_, _)
StrLess(a, b) ==
    IF b = <<>> THEN FALSE
    ELSE IF a = <<>> THEN TRUE
    ELSE IF a[1] # b[1] THEN a[1] < b[1]
    ELSE StrLess(Tail(a), Tail(b))

\* A mutant of Sorted: sorted(..., reverse=True).
RECURSIVE SortedDescending(_)
SortedDescending(S) ==
    IF S = {} THEN <<>>
    ELSE LET big == CHOOSE x \in S : \A y \in S \ {x} : StrLess(y, x)
         IN  <<big>> \o SortedDescending(S \ {big})

RECURSIVE Sorted(_)
Sorted(S) ==
    IF S = {} THEN <<>>
    ELSE LET least == CHOOSE x \in S : \A y \in S \ {x} : StrLess(x, y)
         IN  <<least>> \o Sorted(S \ {least})

\* The slice s[:n] of a list
SliceTo(s, n) ==
    IF n >= 0 THEN SubSeq(s, 1, Min(n, Len(s)))
    ELSE SubSeq(s, 1, Max(Len(s) + n, 0))

(***************************************************************************)
(* Outcomes of a call: a returned value or a raised exception.             *)
(***************************************************************************)
Return(v) == [ok |-> TRUE, value |-> v]
Raise(type, msg) == [ok |-> FALSE, exc |-> [type |-> type, msg |-> msg]]

(***************************************************************************)
(* The inputs: command lines, environments and provider responses.         *)
(***************************************************************************)
Locations == [zip : BOOLEAN, country : {"us", "gb"}]
LocationOf(zip) == IF zip THEN "10001" ELSE "London"
EnvKeys == {PyNone, "env-key"}
FlagKeys == {PyNone, "flag-key"}
DaysValues == ((-1)..MaxDays) \cup {10}
UtcOffsets == {-18000, 19800}

ArgsSet ==
    {[location |-> LocationOf(l.zip), zip |-> l.zip, country |-> l.country,
      api_key |-> k, forecast |-> f, days |-> d] :
        l \in Locations, k \in FlagKeys, f \in BOOLEAN, d \in DaysValues}

\* Condition descriptions, as ASCII codes.
LightRain == <<108, 105, 103, 104, 116, 32, 114, 97, 105, 110>>   \* "light rain"
ClearSky == <<67, 108, 101, 97, 114, 32, 83, 107, 121>>           \* "Clear Sky"
Fog == <<102, 79, 71>>                                            \* "fOG"

Sample(dt, temp, desc) ==
    [dt |-> dt, main |-> [temp |-> temp], weather |-> <<[description |-> desc]>>]

\* Well-formed samples around 2025-10-01 and 2026-01-01 (times in UTC).
GoodSamples ==
    {Sample(1759266000, 61, LightRain),   \* 2025-09-30 21:00
     Sample(1759287600, 55, ClearSky),    \* 2025-10-01 03:00
     Sample(1759352400, 63, Fog),         \* 2025-10-01 21:00
     Sample(1767218400, 30, LightRain)}   \* 2025-12-31 22:00
\* A sample without its "main" object.
BadSample == [dt |-> 1759287600, weather |-> <<[description |-> LightRain]>>]
Samples == GoodSamples \cup {BadSample}
FetchedSamples ==
    {Sample(1759276800, 58, ClearSky), Sample(1759352400, 63, Fog), BadSample}

ListsOf(S, n) == UNION {[1..k -> S] : k \in 0..n}

City == [name |-> "London", country |-> "GB"]
ForecastBodies(S, n) ==
    {[city |-> City, list |-> l] : l \in ListsOf(S, n)} \cup {[list |-> <<>>]}

CurrentBody(desc) ==
    [name |-> "London",
     sys |-> [country |-> "GB", sunrise |-> 1759298400, sunset |-> 1759340700],
     weather |-> <<[description |-> desc]>>,
     main |-> [temp |-> 61, feels_like |-> 59, humidity |-> 80],
     wind |-> [speed |-> 7]]
CurrentBodies ==
    {CurrentBody(LightRain), CurrentBody(ClearSky),
     [name |-> "London", sys |-> [country |-> "GB"]]}

ErrorStatuses == {401, 404, 502}
ErrorBodies ==
    {[cod |-> 401, message |-> "Invalid API key"],
     [cod |-> 404, message |-> "city not found"],
     [cod |-> 500]}

\* What requests.get can come back with: no response at all, or a status
\* and a body that is a JSON object or not JSON (an HTML error page).
NoResponse == [received |-> FALSE]
JsonResponse(status, obj) ==
    [received |-> TRUE, status_code |-> status, is_json |-> TRUE, json |-> obj]
TextResponse(status) ==
    [received |-> TRUE, status_code |-> status, is_json |-> FALSE]
Responses(okBodies) ==
    {NoResponse}
    \cup {JsonResponse(200, b) : b \in okBodies}
    \cup {TextResponse(s) : s \in ErrorStatuses \cup {200}}
    \cup {JsonResponse(s, b) : s \in ErrorStatuses, b \in ErrorBodies}

(***************************************************************************)
(* class WeatherAPI                                                        *)
(***************************************************************************)
WeatherAPI(api_key) ==
    [api_key |-> api_key, base_url |-> "https://api.openweathermap.org/data/2.5"]

LocationParam(params, location, is_zip, country_code) ==
    IF is_zip
    THEN params @@ ("zip" :> (location \o "," \o country_code))
    ELSE params @@ ("q" :> (location \o "," \o country_code))

CurrentWeatherRequest(self, location, is_zip, country_code) ==
    [endpoint |-> self.base_url \o "/weather",
     params |-> LocationParam([appid |-> self.api_key, units |-> "imperial"],
                              location, is_zip, country_code)]

\* A mutant of SampleCount: the cap is forgotten.
SampleCountUncapped(days) == days * 8

SampleCount(days) == Min(days * 8, 40)

ForecastRequest(self, location, is_zip, country_code, days) ==
    [endpoint |-> self.base_url \o "/forecast",
     params |-> LocationParam([appid |-> self.api_key, units |-> "imperial",
                               cnt |-> SampleCount(days)],
                              location, is_zip, country_code)]

\* response.json()
ResponseJson(resp) ==
    IF resp.is_json THEN Return(resp.json)
    ELSE Raise("JSONDecodeError", "Expecting value: line 1 column 1 (char 0)")

\* The tail of get_current_weather and of get_forecast: from the response
\* of requests.get to the value returned or the exception raised.
HandleResponse(resp) ==
    IF ~resp.received
    THEN Raise("ConnectionError", "Max retries exceeded")
    ELSE LET body == ResponseJson(resp)
         IN  IF resp.status_code = 200 THEN body
             ELSE IF ~body.ok THEN body
             ELSE LET error_msg ==
                          IF "message" \in DOMAIN body.value
                          THEN body.value.message ELSE "Unknown error"
                  IN  Raise("Exception",
                            "API Error (" \o ToString(resp.status_code)
                                \o "): " \o error_msg)

(***************************************************************************)
(* format_current_weather                                                  *)
(***************************************************************************)
\* The first of the keys, in the order the code reads them, that obj lacks.
MissingKeys(obj, keys) == {i \in 1..Len(keys) : keys[i] \notin DOMAIN obj}
FirstMissing(obj, keys) ==
    keys[CHOOSE i \in MissingKeys(obj, keys) : \A j \in MissingKeys(obj, keys) : i <= j]
KeyError(key) == Raise("KeyError", "'" \o key \o "'")

FormatCurrentWeather(weather_data) ==
    LET keys == <<"name", "sys", "weather", "main", "wind">>
    IN  IF MissingKeys(weather_data, keys) # {}
        THEN KeyError(FirstMissing(weather_data, keys))
        ELSE Return(
            [location |-> weather_data.name,
             condition |-> Capitalize(weather_data.weather[1].description),
             temperature |-> weather_data.main.temp,
             feelsLike |-> weather_data.main.feels_like,
             humidity |-> weather_data.main.humidity,
             wind_speed |-> weather_data.wind.speed,
             sunrise |-> StrftimeTime(FromTimestamp(weather_data.sys.sunrise)),
             sunset |-> StrftimeTime(FromTimestamp(weather_data.sys.sunset))])

(***************************************************************************)
(* format_forecast                                                         *)
(***************************************************************************)
EmptyDict == [k \in {} |-> <<>>]

\* The key of an item's bucket.
DayKey(item) == StrftimeDate(FromTimestamp(item.dt))

\* A mutant of GroupStep: an existing bucket is started afresh.
GroupStepOverwrite(by_day, list, i) ==
    LET day == DayKey(list[i])
    IN  [k \in DOMAIN by_day \cup {day} |-> IF k = day THEN <<i>> ELSE by_day[k]]

\* One iteration of the grouping loop: item i of the list goes to its bucket.
\* A bucket holds the item objects themselves, here their list positions.
GroupStep(by_day, list, i) ==
    LET day == DayKey(list[i])
        with_day == IF day \notin DOMAIN by_day
                    THEN by_day @@ (day :> <<>>) ELSE by_day
    IN  [with_day EXCEPT ![day] = Append(@, i)]

TitleLine(forecast_data) ==
    [kind |-> "title", city |-> forecast_data.city.name,
     country |-> forecast_data.city.country]

\* "{time}: {temp}°F - {weather_desc}"
SlotLine(item) ==
    [kind |-> "slot", time |-> StrftimeTime(FromTimestamp(item.dt)),
     temp |-> item.main.temp, desc |-> Capitalize(item.weather[1].description)]

\* The days the output loop runs over.
KeptDays(days_sorted, days) == SliceTo(days_sorted, days)

\* A mutant of DayLines: the slot lines of a day come out latest first.
DayLinesReversed(list, bucket, day) ==
    LET day_str == StrftimeDayStr(StrptimeDate(day))
    IN  <<[kind |-> "header", day_str |-> day_str],
          [kind |-> "rule", width |-> LenDayStr(day_str) + 1]>>
        \o [j \in 1..Len(bucket) |-> SlotLine(list[bucket[Len(bucket) + 1 - j]])]

\* The lines one iteration of the output loop adds, all items being well formed.
DayLines(list, bucket, day) ==
    LET day_str == StrftimeDayStr(StrptimeDate(day))
    IN  <<[kind |-> "header", day_str |-> day_str],
          [kind |-> "rule", width |-> LenDayStr(day_str) + 1]>>
        \o [j \in 1..Len(bucket) |-> SlotLine(list[bucket[j]])]

\* One iteration of the output loop.
EmitDay(list, bucket, day) ==
    IF \E j \in 1..Len(bucket) : "main" \notin DOMAIN list[bucket[j]]
    THEN KeyError("main")
    ELSE Return(DayLines(list, bucket, day))

(***************************************************************************)
(* main                                                                    *)
(***************************************************************************)
Init ==
    /\ args \in ArgsSet
    /\ environ \in EnvKeys
    /\ utcoffset \in UtcOffsets
    /\ pc = "start"
    /\ weather_api = NoValue
    /\ requests = <<>>
    /\ stdout = <<>>
    /\ current_weather = NoValue
    /\ forecast = NoValue
    /\ exc = NoValue
    /\ exit_status = -1
    /\ forecasts_by_day = EmptyDict
    /\ item_index = 0
    /\ sorted_days = <<>>
    /\ day_index = 0
    /\ output = <<>>
    /\ returned = <<>>
    /\ response = NoValue

format_locals == <<forecasts_by_day, item_index, sorted_days, day_index, output, returned>>
inputs == <<args, environ, utcoffset>>

\* A mutant of ClientApiKey: the --api-key flag, when given, wins.
ClientApiKeyFromFlag == IF args.api_key # PyNone THEN args.api_key ELSE environ

\* The key main builds its WeatherAPI with.
ClientApiKey == environ

\* weather_api = WeatherAPI(...); current_weather = weather_api.get_current_weather(...)
GetCurrentWeather ==
    /\ pc = "start"
    /\ LET api == WeatherAPI(ClientApiKey)
       IN  /\ weather_api' = api
           /\ requests' = Append(requests,
                  CurrentWeatherRequest(api, args.location, args.zip, args.country))
    /\ \E resp \in Responses(CurrentBodies) :
          /\ response' = resp
          /\ LET out == HandleResponse(resp)
             IN  IF out.ok
                 THEN current_weather' = out.value /\ pc' = "print_current"
                      /\ UNCHANGED exc
                 ELSE exc' = out.exc /\ pc' = "except" /\ UNCHANGED current_weather
    /\ UNCHANGED <<inputs, stdout, forecast, exit_status, format_locals>>

\* A mutant of PrintCurrentWeather: the forecast is fetched without --forecast.
PrintCurrentWeatherThenForecast ==
    /\ pc = "print_current"
    /\ LET out == FormatCurrentWeather(current_weather)
       IN  IF out.ok
           THEN /\ stdout' = Append(stdout, [kind |-> "record", value |-> out.value])
                /\ pc' = "get_forecast"
                /\ UNCHANGED exc
           ELSE exc' = out.exc /\ pc' = "except" /\ UNCHANGED stdout
    /\ UNCHANGED <<inputs, weather_api, requests, current_weather, forecast,
                   exit_status, format_locals, response>>

\* print(format_current_weather(current_weather)); if args.forecast:
PrintCurrentWeather ==
    /\ pc = "print_current"
    /\ LET out == FormatCurrentWeather(current_weather)
       IN  IF out.ok
           THEN /\ stdout' = Append(stdout, [kind |-> "record", value |-> out.value])
                /\ pc' = IF args.forecast THEN "get_forecast" ELSE "return"
                /\ UNCHANGED exc
           ELSE exc' = out.exc /\ pc' = "except" /\ UNCHANGED stdout
    /\ UNCHANGED <<inputs, weather_api, requests, current_weather, forecast,
                   exit_status, format_locals, response>>

\* forecast = weather_api.get_forecast(args.location, args.zip, args.country, args.days)
GetForecast ==
    /\ pc = "get_forecast"
    /\ requests' = Append(requests,
           ForecastRequest(weather_api, args.location, args.zip, args.country,
                           args.days))
    /\ \E resp \in Responses(ForecastBodies(FetchedSamples, MaxFetched)) :
          /\ response' = resp
          /\ LET out == HandleResponse(resp)
             IN  IF out.ok
                 THEN forecast' = out.value /\ pc' = "ff_enter" /\ UNCHANGED exc
                 ELSE exc' = out.exc /\ pc' = "except" /\ UNCHANGED forecast
    /\ UNCHANGED <<inputs, weather_api, stdout, current_weather, exit_status,
                   format_locals>>

\* print(format_forecast(forecast, args.days)), once format_forecast has returned
PrintForecast ==
    /\ pc = "ff_returned"
    /\ stdout' = Append(stdout, [kind |-> "text", value |-> returned])
    /\ pc' = "return"
    /\ UNCHANGED <<inputs, weather_api, requests, current_weather, forecast, exc,
                   exit_status, format_locals, response>>

\* A mutant of ExceptHandler: the exception is swallowed without a line.
ExceptHandlerSilent ==
    /\ pc = "except"
    /\ pc' = "return"
    /\ UNCHANGED <<inputs, weather_api, requests, stdout, current_weather, forecast,
                   exc, exit_status, format_locals, response>>

\* except Exception as e: print(f"Error: {str(e)}")
ExceptHandler ==
    /\ pc = "except"
    /\ stdout' = Append(stdout, [kind |-> "line", value |-> "Error: " \o exc.msg])
    /\ pc' = "return"
    /\ UNCHANGED <<inputs, weather_api, requests, current_weather, forecast, exc,
                   exit_status, format_locals, response>>

\* main returns; nothing calls sys.exit, so the interpreter exits with 0.
ReturnFromMain ==
    /\ pc = "return"
    /\ exit_status' = 0
    /\ pc' = "exited"
    /\ UNCHANGED <<inputs, weather_api, requests, stdout, current_weather, forecast,
                   exc, format_locals, response>>

(***************************************************************************)
(* format_forecast, one loop iteration per step: called by main, and on    *)
(* its own from any forecast payload.                                      *)
(***************************************************************************)
InitFormat ==
    /\ args \in {a \in ArgsSet : ~a.zip /\ a.country = "gb" /\ a.api_key = PyNone
                                 /\ a.forecast}
    /\ environ = PyNone
    /\ utcoffset \in UtcOffsets
    /\ pc = "ff_enter"
    /\ weather_api = NoValue
    /\ requests = <<>>
    /\ stdout = <<>>
    /\ current_weather = NoValue
    /\ forecast \in ForecastBodies(Samples, MaxSamples)
    /\ exc = NoValue
    /\ exit_status = -1
    /\ forecasts_by_day = EmptyDict
    /\ item_index = 0
    /\ sorted_days = <<>>
    /\ day_index = 0
    /\ output = <<>>
    /\ returned = <<>>
    /\ response = NoValue

main_state == <<weather_api, requests, stdout, current_weather, forecast,
                exit_status, response>>

\* city = forecast_data["city"]["name"] ...; forecasts_by_day = {}
FFEnter ==
    /\ pc = "ff_enter"
    /\ IF "city" \notin DOMAIN forecast
       THEN exc' = KeyError("city").exc /\ pc' = "except"
            /\ UNCHANGED <<forecasts_by_day, item_index>>
       ELSE forecasts_by_day' = EmptyDict /\ item_index' = 1 /\ pc' = "ff_group"
            /\ UNCHANGED exc
    /\ UNCHANGED <<inputs, main_state, sorted_days, day_index, output, returned>>

\* for item in forecast_data["list"]: one iteration
FFGroupItem ==
    /\ pc = "ff_group"
    /\ item_index <= Len(forecast.list)
    /\ forecasts_by_day' = GroupStep(forecasts_by_day, forecast.list, item_index)
    /\ item_index' = item_index + 1
    /\ UNCHANGED <<inputs, main_state, pc, exc, sorted_days, day_index, output,
                   returned>>

\* output = title; sorted_days = sorted(forecasts_by_day.keys())
FFSortDays ==
    /\ pc = "ff_group"
    /\ item_index > Len(forecast.list)
    /\ output' = <<TitleLine(forecast)>>
    /\ sorted_days' = Sorted(DOMAIN forecasts_by_day)
    /\ day_index' = 1
    /\ pc' = "ff_emit"
    /\ UNCHANGED <<inputs, main_state, exc, forecasts_by_day, item_index, returned>>

\* for day in sorted_days[:days]: one iteration
FFEmitDay ==
    /\ pc = "ff_emit"
    /\ day_index <= Len(KeptDays(sorted_days, args.days))
    /\ LET day == KeptDays(sorted_days, args.days)[day_index]
           out == EmitDay(forecast.list, forecasts_by_day[day], day)
       IN  IF out.ok
           THEN output' = output \o out.value /\ day_index' = day_index + 1
                /\ UNCHANGED <<pc, exc>>
           ELSE exc' = out.exc /\ pc' = "except" /\ UNCHANGED <<output, day_index>>
    /\ UNCHANGED <<inputs, main_state, forecasts_by_day, item_index, sorted_days,
                   returned>>

\* return output
FFReturn ==
    /\ pc = "ff_emit"
    /\ day_index > Len(KeptDays(sorted_days, args.days))
    /\ returned' = output
    /\ pc' = "ff_returned"
    /\ UNCHANGED <<inputs, main_state, exc, forecasts_by_day, item_index, sorted_days,
                   day_index, output>>

Next ==
    \/ GetCurrentWeather
    \/ PrintCurrentWeather
    \/ GetForecast
    \/ PrintForecast
    \/ FFEnter
    \/ FFGroupItem
    \/ FFSortDays
    \/ FFEmitDay
    \/ FFReturn
    \/ ExceptHandler
    \/ ReturnFromMain

Spec == Init /\ [][Next]_vars

NextFormat ==
    \/ FFEnter
    \/ FFGroupItem
    \/ FFSortDays
    \/ FFEmitDay
    \/ FFReturn

SpecFormat == InitFormat /\ [][NextFormat]_vars

(***************************************************************************)
(* Notions the properties are stated in.                                   *)
(***************************************************************************)
ForecastUrl == "https://api.openweathermap.org/data/2.5/forecast"
WeatherUrl == "https://api.openweathermap.org/data/2.5/weather"

\* The local calendar date of a timestamp, as a day number: dates compare
\* chronologically as these numbers do.
LocalDay(ts) == (ts + utcoffset) \div 86400

\* The distinct local dates of the first n samples of a list.
LocalDays(list, n) == {LocalDay(list[i].dt) : i \in 1..n}

\* The k-th earliest of a set of day numbers.
KthDay(S, k) == CHOOSE x \in S : Cardinality({y \in S : y < x}) = k - 1

\* The header lines of a text, in order, and the slot lines of its k-th day block.
IsHeader(line) == line.kind = "header"
HeaderPositions(text) == {i \in 1..Len(text) : text[i].kind = "header"}
KthHeader(text, k) ==
    CHOOSE p \in HeaderPositions(text) :
        Cardinality({q \in HeaderPositions(text) : q < p}) = k - 1
BlockEnd(text, p) ==
    LET later == {q \in HeaderPositions(text) : q > p}
    IN  IF later = {} THEN Len(text)
        ELSE (CHOOSE q \in later : \A r \in later : q <= r) - 1
BlockSlots(text, k) ==
    LET p == KthHeader(text, k) IN SubSeq(text, p + 2, BlockEnd(text, p))

\* The positions of the samples of one local date, in list order.
RECURSIVE PositionsOfDay(_, _, _)
PositionsOfDay(list, n, day) ==
    IF n = 0 THEN <<>>
    ELSE IF LocalDay(list[n].dt) = day
         THEN Append(PositionsOfDay(list, n - 1, day), n)
         ELSE PositionsOfDay(list, n - 1, day)

IsForecastRequest(r) == r.endpoint = ForecastUrl

(***************************************************************************)
(* C1: for every day count d >= 1 the forecast request carries             *)
(* cnt = min(d*8, 40), and for d > 5 the request is the request of d = 5.  *)
(***************************************************************************)
C1_SampleCount ==
    \A i \in 1..Len(requests) :
        (IsForecastRequest(requests[i]) /\ args.days >= 1) =>
            /\ requests[i].params.cnt =
                   (IF args.days * 8 <= 40 THEN args.days * 8 ELSE 40)
            /\ args.days > 5 =>
                   requests[i] = ForecastRequest(weather_api, args.location,
                                                 args.zip, args.country, 5)

C1_Witness ==
    /\ args.days = 10
    /\ \E i \in 1..Len(requests) :
          IsForecastRequest(requests[i]) /\ requests[i].params.cnt = 40

FetchFailedOnStatus ==
    /\ pc = "except"
    /\ response.received
    /\ response.status_code # 200

(***************************************************************************)
(* C2: a fetch that received a status other than 200 fails with the API    *)
(* error "API Error (<status>): <message>", <message> being the body's     *)
(* message field or "Unknown error", and with no other kind of error.      *)
(***************************************************************************)
C2_ApiErrorOnly ==
    FetchFailedOnStatus =>
        /\ exc.type = "Exception"
        /\ \E m \in {"Invalid API key", "city not found", "Unknown error"} :
              /\ exc.msg = "API Error (" \o ToString(response.status_code) \o "): " \o m
              /\ response.is_json
              /\ IF "message" \in DOMAIN response.json
                 THEN m = response.json.message ELSE m = "Unknown error"

(***************************************************************************)
(* C7: whatever integer --days is, the forecast request of main carries a  *)
(* sample count between 8 and 40.                                          *)
(***************************************************************************)
C7_CountClamped ==
    \A i \in 1..Len(requests) :
        IsForecastRequest(requests[i]) =>
            (requests[i].params.cnt >= 8 /\ requests[i].params.cnt <= 40)

ExpectedParams(base) ==
    IF args.zip
    THEN base @@ ("zip" :> (args.location \o "," \o args.country))
    ELSE base @@ ("q" :> (args.location \o "," \o args.country))

ErrorLine == [kind |-> "line", value |-> "Error: " \o exc.msg]
NothingFetchedOrFormatted ==
    UNCHANGED <<requests, response, current_weather, forecast, exc, format_locals>>

(***************************************************************************)
(* C3: a failure anywhere in main's chain is caught once: the step that    *)
(* raises prints nothing and leaves what was printed; the next step prints *)
(* the one line "Error: <message>"; after that nothing is fetched,         *)
(* formatted or printed, and main returns with exit status 0.              *)
(***************************************************************************)
C3_CaughtOnce ==
    [][/\ (exc = NoValue /\ exc' # NoValue) =>
              (pc' = "except" /\ stdout' = stdout)
       /\ (exc # NoValue /\ pc = "except") =>
              /\ stdout' = Append(stdout, ErrorLine)
              /\ pc' = "return"
              /\ NothingFetchedOrFormatted
       /\ (exc # NoValue /\ pc # "except") =>
              /\ pc = "return" /\ pc' = "exited" /\ exit_status' = 0
              /\ stdout' = stdout
              /\ Cardinality({i \in 1..Len(stdout) : stdout[i].kind = "line"}) = 1
              /\ NothingFetchedOrFormatted]_vars

\* The forecast formatter failed after the current record was printed, and
\* main has ended.
C3_Witness ==
    /\ pc = "exited"
    /\ exit_status = 0
    /\ exc # NoValue
    /\ exc.type = "KeyError"
    /\ Len(requests) = 2
    /\ Len(stdout) = 2
    /\ stdout[1].kind = "record"
    /\ stdout[2] = [kind |-> "line", value |-> "Error: 'main'"]

(***************************************************************************)
(* C4: one current-weather GET opens every run; the forecast GET, at most  *)
(* one and only under --forecast, follows the printing of the current      *)
(* record; the forecast text is printed after the forecast GET; a failed   *)
(* current-weather fetch is followed by no request.                        *)
(***************************************************************************)
C4_StepOrder ==
    /\ pc = "start" <=> requests = <<>>
    /\ Len(requests) <= 2
    /\ Len(requests) >= 1 => requests[1].endpoint = WeatherUrl
    /\ Len(requests) = 2 =>
          /\ requests[2].endpoint = ForecastUrl
          /\ args.forecast
          /\ Len(stdout) >= 1 /\ stdout[1].kind = "record"
    /\ \A i \in 1..Len(stdout) :
          /\ stdout[i].kind = "record" => i = 1
          /\ stdout[i].kind = "text" =>
                (i = 2 /\ stdout[1].kind = "record" /\ Len(requests) = 2)
    /\ (current_weather = NoValue /\ exc # NoValue) => Len(requests) = 1
    /\ (pc = "exited" /\ exc = NoValue) =>
          /\ Len(requests) = (IF args.forecast THEN 2 ELSE 1)
          /\ Len(stdout) = Len(requests)

C4_Witness ==
    /\ pc = "exited"
    /\ exc = NoValue
    /\ Len(requests) = 2
    /\ Len(stdout) = 2
    /\ stdout[2].kind = "text"

(***************************************************************************)
(* C10, as claimed: the description is printed with its first character    *)
(* upper-cased and every other character as the provider sent it.          *)
(***************************************************************************)
FirstUpperRestSame(sent, shown) ==
    /\ Len(shown) = Len(sent)
    /\ \A i \in 1..Len(sent) :
          shown[i] = IF i = 1 THEN Upper(sent[i]) ELSE sent[i]

\* C10, amended: the first character upper-cased, every other lower-cased.
FirstUpperRestLower(sent, shown) ==
    /\ Len(shown) = Len(sent)
    /\ \A i \in 1..Len(sent) :
          shown[i] = IF i = 1
                     THEN (IF sent[i] \in 97..122 THEN sent[i] - 32 ELSE sent[i])
                     ELSE (IF sent[i] \in 65..90 THEN sent[i] + 32 ELSE sent[i])

\* Every description printed, with the descriptions it can have come from.
Shown(Rel(_, _)) ==
    \A i \in 1..Len(stdout) :
        /\ stdout[i].kind = "record" =>
              Rel(current_weather.weather[1].description, stdout[i].value.condition)
        /\ stdout[i].kind = "text" =>
              \A j \in 1..Len(stdout[i].value) :
                  stdout[i].value[j].kind = "slot" =>
                      \E n \in 1..Len(forecast.list) :
                          /\ StrftimeTime(FromTimestamp(forecast.list[n].dt))
                                 = stdout[i].value[j].time
                          /\ Rel(forecast.list[n].weather[1].description,
                                 stdout[i].value[j].desc)

C10_FirstOnly == Shown(FirstUpperRestSame)

(***************************************************************************)
(* C10: format_current_weather ('condition') and format_forecast (each     *)
(* slot line) print the description with its first character upper-cased   *)
(* and all its other characters lower-cased.                               *)
(***************************************************************************)
C10_Capitalized == Shown(FirstUpperRestLower)

\* "fOG" was printed as "Fog" in a forecast, under a record "Clear sky".
C10_Witness ==
    /\ Len(stdout) = 2
    /\ stdout[1].kind = "record"
    /\ current_weather.weather[1].description = ClearSky
    /\ stdout[1].value.condition = <<67, 108, 101, 97, 114, 32, 115, 107, 121>>
    /\ stdout[2].kind = "text"
    /\ \E j \in 1..Len(stdout[2].value) :
          /\ stdout[2].value[j].kind = "slot"
          /\ stdout[2].value[j].desc = <<70, 111, 103>>

Headers(text) == SelectSeq(text, IsHeader)

(***************************************************************************)
(* C5: for a day count N >= 1 and a payload with D distinct local dates,   *)
(* the text returned has min(N, D) day headers, the k-th being the header  *)
(* of the k-th earliest date, whatever the order of the payload list.      *)
(***************************************************************************)
C5_FirstDaysInOrder ==
    (pc = "ff_returned" /\ args.days >= 1) =>
        LET list == forecast.list
            dates == LocalDays(list, Len(list))
            kept == IF args.days <= Cardinality(dates)
                    THEN args.days ELSE Cardinality(dates)
        IN  /\ Len(Headers(returned)) = kept
            /\ \A k \in 1..kept :
                  LET date == CivilFromDays(KthDay(dates, k))
                  IN  Headers(returned)[k].day_str =
                          [A |-> WeekdayNames[((KthDay(dates, k) + 3) % 7) + 1],
                           b |-> MonthAbbrs[date.month],
                           d |-> Pad2(date.day)]

\* Three dates, given latest first, cut to the two earliest.
C5_Witness ==
    /\ pc = "ff_returned"
    /\ args.days = 2
    /\ Len(forecast.list) = 3
    /\ Cardinality(LocalDays(forecast.list, 3)) = 3
    /\ LocalDay(forecast.list[1].dt) > LocalDay(forecast.list[2].dt)
    /\ LocalDay(forecast.list[2].dt) > LocalDay(forecast.list[3].dt)
    /\ Len(Headers(returned)) = 2

(***************************************************************************)
(* C6, the part that holds: the k-th day block of the text returned has    *)
(* one slot line for every sample of the k-th earliest date, no other, in  *)
(* the order of the samples in the payload list.                           *)
(***************************************************************************)
BlockIsItsDay(text, list, k) ==
    LET day == KthDay(LocalDays(list, Len(list)), k)
        at == PositionsOfDay(list, Len(list), day)
        slots == BlockSlots(text, k)
    IN  /\ Len(slots) = Len(at)
        /\ \A j \in 1..Len(at) : slots[j] = SlotLine(list[at[j]])

(***************************************************************************)
(* C6: for any payload and day count, every day block of the text returned *)
(* has exactly one slot line per sample of its day, and those lines are in *)
(* the order the payload list gives the day's samples (ascending in time   *)
(* where the list is).                                                     *)
(***************************************************************************)
C6_SlotsInListOrder ==
    pc = "ff_returned" =>
        \A k \in 1..Cardinality(HeaderPositions(returned)) :
            BlockIsItsDay(returned, forecast.list, k)

\* C6, as claimed: moreover the slot lines of a block ascend in time.
C6_SlotsAscending ==
    pc = "ff_returned" =>
        \A k \in 1..Cardinality(HeaderPositions(returned)) :
            /\ BlockIsItsDay(returned, forecast.list, k)
            /\ \A j \in 1..(Len(BlockSlots(returned, k)) - 1) :
                  ~StrLess(BlockSlots(returned, k)[j + 1].time,
                           BlockSlots(returned, k)[j].time)

\* A day of two samples, listed later sample first, was written out.
C6_Witness ==
    /\ pc = "ff_returned"
    /\ Len(forecast.list) = 3
    /\ LocalDay(forecast.list[1].dt) = LocalDay(forecast.list[3].dt)
    /\ LocalDay(forecast.list[1].dt) # LocalDay(forecast.list[2].dt)
    /\ forecast.list[1].dt > forecast.list[3].dt
    /\ Cardinality(HeaderPositions(returned)) = 2

\* The number of samples the grouping loop has handled.
Handled == IF item_index = 0 THEN 0 ELSE item_index - 1

Places(i) ==
    {<<k, j>> \in UNION {{k} \X (1..Len(forecasts_by_day[k])) :
                             k \in DOMAIN forecasts_by_day} :
        forecasts_by_day[k][j] = i}

RECURSIVE SumOfSizes(_)
SumOfSizes(keys) ==
    IF keys = {} THEN 0
    ELSE LET k == CHOOSE x \in keys : TRUE
         IN  Len(forecasts_by_day[k]) + SumOfSizes(keys \ {k})

BucketsPartition ==
    /\ \A i \in 1..Handled :
          /\ Cardinality(Places(i)) = 1
          /\ \A p \in Places(i) :
                CivilFromDays(LocalDay(forecast.list[i].dt)) = StrptimeDate(p[1])
    /\ \A k \in DOMAIN forecasts_by_day :
          /\ forecasts_by_day[k] # <<>>
          /\ \A j \in 1..Len(forecasts_by_day[k]) :
                forecasts_by_day[k][j] \in 1..Handled
    /\ SumOfSizes(DOMAIN forecasts_by_day) = Handled
    /\ Cardinality(DOMAIN forecasts_by_day) =
           Cardinality(LocalDays(forecast.list, Handled))

(***************************************************************************)
(* C9: at every point of the grouping every sample handled so far is in    *)
(* exactly one bucket, once, and that bucket is the one of its own local   *)
(* date; bucket sizes sum to the number handled, no bucket is empty, and   *)
(* no step of format_forecast changes the payload.                         *)
(***************************************************************************)
C9_Grouping == [][BucketsPartition' /\ forecast' = forecast]_vars

\* Three samples handled, two of them in one bucket.
C9_Witness ==
    /\ pc = "ff_group"
    /\ item_index = 4
    /\ Cardinality(DOMAIN forecasts_by_day) = 2
    /\ \E k \in DOMAIN forecasts_by_day : Len(forecasts_by_day[k]) = 2

====
